---- MODULE Spec2Model ----
(***************************************************************************)
(* The javascript stage of benthos: one stage instance, built either by    *)
(* newJavaScript (processor variant, Process) or by newJavaScriptWriter    *)
(* (output variant, WriteBatch plus the dispatch loop), the interpreter    *)
(* built per message by getVM with its host functions, and the shutdown    *)
(* sequence of the output variant.                                         *)
(*                                                                         *)
(* A script is modelled as the most general program: while an execution is *)
(* running it may call any host function with any argument list of the     *)
(* small sets below, write a global, overwrite a host function, raise an   *)
(* uncaught fault, or run to completion.                                   *)
(***************************************************************************)
EXTENDS Integers, Sequences, FiniteSets, TLC

(* ------------------------------ bounds -------------------------------- *)
NumCallers == 2      \* goroutines calling Process / WriteBatch
MaxArgs == 2         \* longest argument and destination lists parsed alone
MaxBatch == 2        \* longest batch handed to WriteBatch
MaxGot == 1          \* transactions a sink takes from its channel
NumConsumers == 2    \* goroutines calling Consume
MaxRecv == 1         \* transactions the upstream channel delivers

Callers == 1..NumCallers
OneCaller == {1}
Consumers == 1..NumConsumers

(* ------------------------------ values -------------------------------- *)
\* A script value (goja.Value) or a host value (Go interface{}): its type
\* tag, its text when it is a string, its number when it is a number.
V(t, s, n) == [t |-> t, s |-> s, n |-> n]
Undefined == V("undefined", "", 0)
Null == V("null", "", 0)
Str(s) == V("string", s, 0)
Num(n) == V("number", "", n)
Obj == V("object", "", 0)
Arr == V("array", "", 0)      \* the empty array

GoNil == V("nil", "", 0)
GoStr(s) == V("gostring", s, 0)
GoInt(n) == V("int64", "", n)
GoMap == V("map", "", 0)
GoSlice == V("slice", "", 0)

Digits == <<"0", "1", "2", "3", "4", "5", "6", "7", "8", "9">>

RECURSIVE IntToStr(_)
IntToStr(n) == IF n < 10 THEN Digits[n + 1]
               ELSE IntToStr(n \div 10) \o Digits[(n % 10) + 1]

\* goja Value.String(): the script's ToString conversion.
JSString(a) ==
    CASE a.t = "string" -> a.s
      [] a.t = "number" -> IntToStr(a.n)
      [] a.t = "null" -> "null"
      [] a.t = "undefined" -> "undefined"
      [] a.t = "array" -> ""
      [] OTHER -> "[object Object]"

\* goja Value.Export(): the host value of a script value.
Export(a) ==
    CASE a.t = "string" -> GoStr(a.s)
      [] a.t = "number" -> GoInt(a.n)
      [] a.t = "object" -> GoMap
      [] a.t = "array" -> GoSlice
      [] OTHER -> GoNil

\* goja Runtime.ToValue(): the script value of a host value.
ToValue(g) ==
    CASE g.t = "gostring" -> Str(g.s)
      [] g.t = "int64" -> Num(g.n)
      [] g.t = "map" -> Obj
      [] g.t = "slice" -> Arr
      [] OTHER -> Null

\* query.IToString(): a metadata value as a string.
IToString(g) ==
    CASE g.t = "gostring" -> g.s
      [] g.t = "int64" -> IntToStr(g.n)
      [] g.t = "nil" -> "null"
      [] OTHER -> "{}"

(* ------------------------------ errors -------------------------------- *)
NoErr == "none"
ErrTooMany == "have more arguments than pointers to parse into"
ErrUndefinedArg == "argument is undefined"
ErrUnhandledType == "encountered unhandled type"
ErrNotFound == "not found"
ErrNotCacheRes == "not cache res"
ErrNotSet == "not set"
ErrRunInProcessor == "run in processor"
ErrNotOutputRes == "not output res"
ErrOutputTimeout == "output timeout"
ErrFetch == "fetch failed"
ErrInvalidPayload == "invalid payload"
ErrScript == "script exception"

(* --------------------------- parseArgs -------------------------------- *)
\* A destination of parseArgs: the Go type behind the pointer and the value
\* it holds.
Dest(kind, val) == [kind |-> kind, val |-> val]
StrDest(s) == Dest("string", GoStr(s))
AnyDest == Dest("any", GoNil)

\* The destination types the type switch of parseArgs has a case for and
\* whose conversion is in this file.
HandledKinds == {"string", "int", "int64", "float64", "bool", "value", "any",
                 "map", "slice", "mapslice"}

\* The destinations filled by getMapFromValue, getSliceFromValue and
\* getMapSliceFromValue, which can fail: a map takes an object, a slice and a
\* slice of maps take an array.
StructKinds == {"map", "slice", "mapslice"}
ErrCouldNotParse == "could not parse"

GetFromValueOk(arg, kind) ==
    IF kind = "map" THEN arg.t = "object" ELSE arg.t = "array"

\* goja Value.ToInteger() and Value.ToBoolean().
ToInteger(a) == IF a.t = "number" THEN a.n ELSE 0

ToBoolean(a) ==
    CASE a.t = "number" -> a.n # 0
      [] a.t = "string" -> a.s # ""
      [] a.t \in {"object", "array"} -> TRUE
      [] OTHER -> FALSE

\* goja Value.ToFloat(): a number as it is, NaN for what is not a number.
ToFloat(a) ==
    IF a.t = "number" THEN V("float64", "", a.n) ELSE V("float64", "NaN", 0)

\* The type switch of parseArgs for one argument.
Store(arg, d) ==
    CASE d.kind = "string" -> [d EXCEPT !.val = GoStr(JSString(arg))]
      [] d.kind \in {"int", "int64"} -> [d EXCEPT !.val = GoInt(ToInteger(arg))]
      [] d.kind = "bool" ->
            [d EXCEPT !.val = V("bool", "", IF ToBoolean(arg) THEN 1 ELSE 0)]
      [] d.kind = "value" -> [d EXCEPT !.val = arg]
      [] d.kind = "any" -> [d EXCEPT !.val = Export(arg)]
      [] d.kind = "float64" -> [d EXCEPT !.val = ToFloat(arg)]
      [] d.kind \in StructKinds ->
            [d EXCEPT !.val = IF GetFromValueOk(arg, d.kind) THEN Export(arg)
                              ELSE GoNil]
      [] OTHER -> d

RECURSIVE ParseFrom(_, _, _)
ParseFrom(i, args, ptrs) ==
    IF i > Len(args) THEN [err |-> NoErr, ptrs |-> ptrs]
    ELSE IF args[i] = Undefined THEN [err |-> ErrUndefinedArg, ptrs |-> ptrs]
    ELSE IF ptrs[i].kind \notin HandledKinds
         THEN [err |-> ErrUnhandledType, ptrs |-> ptrs]
    ELSE IF ptrs[i].kind \in StructKinds /\ ~GetFromValueOk(args[i], ptrs[i].kind)
         THEN [err |-> ErrCouldNotParse,
               ptrs |-> [ptrs EXCEPT ![i] = Store(args[i], ptrs[i])]]
    ELSE ParseFrom(i + 1, args, [ptrs EXCEPT ![i] = Store(args[i], ptrs[i])])

\* A parseArgs that clears the destinations it was given no argument for.
parseArgsClearing(args, ptrs) ==
    IF Len(ptrs) < Len(args) THEN [err |-> ErrTooMany, ptrs |-> ptrs]
    ELSE LET r == ParseFrom(1, args, ptrs)
         IN  [r EXCEPT !.ptrs = [i \in DOMAIN ptrs |->
                 IF i > Len(args) THEN Dest(ptrs[i].kind, GoNil)
                 ELSE r.ptrs[i]]]

parseArgs(args, ptrs) ==
    IF Len(ptrs) < Len(args) THEN [err |-> ErrTooMany, ptrs |-> ptrs]
    ELSE ParseFrom(1, args, ptrs)

(* ------------------------- configuration ------------------------------ *)
\* The cache resources the manager knows, and the cache_res / output_res
\* lists a stage may be configured with.
MgrCaches == {"c1", "c2"}
CacheConfs == {<< >>, <<"c1">>}
OutputConfs == {<<"a", "b">>}

Range(f) == {f[i] : i \in DOMAIN f}

(* ------------------------------ messages ------------------------------ *)
\* message.Part: metadata as a set of <<key, value>> pairs with unique keys,
\* and the structured payload.
Invalid == V("invalid", "", 0)

Msg(id, meta, root) == [id |-> id, meta |-> meta, root |-> root]
NoMsg == Msg(<<0, 0>>, {}, GoNil)

\* The messages handed to the stage: a payload that is not structured data,
\* and a metadata value an earlier stage has set.
InitContents == {[meta |-> {<<"k", GoInt(7)>>}, root |-> Invalid]}

\* The same with messages whose payload is structured data.
StructuredContents ==
    InitContents \cup {[meta |-> {<<"k", GoInt(7)>>}, root |-> GoMap]}

MetaHas(meta, k) == \E p \in meta : p[1] = k
MetaGetMut(meta, k) == (CHOOSE p \in meta : p[1] = k)[2]
MetaDelete(meta, k) == {p \in meta : p[1] # k}
MetaSetMut(meta, k, v) == MetaDelete(meta, k) \cup {<<k, v>>}

(* ------------------------- host functions ----------------------------- *)
\* What a host function body works on: the message its interpreter was built
\* for, the cache backends, and the cache resources reached through
\* AccessCache so far.
Env(m, store, acc) == [msg |-> m, store |-> store, acc |-> acc]

\* An outcome of a host function body: the returned value, the returned
\* error, and the environment it leaves.
Out(res, err, env) == [res |-> res, err |-> err, env |-> env]

\* mgr.AccessCache + cache.Get: the resource is recorded as reached; the read
\* fails when the resource or the key is unknown, and may fail in the backend.
CacheGet(env, name, key) ==
    LET env2 == [env EXCEPT !.acc = @ \cup {name}]
    IN  {Out(GoNil, ErrNotFound, env2)} \cup
        (IF name \in MgrCaches /\ MetaHas(env.store[name], key)
         THEN {Out(GoStr(MetaGetMut(env.store[name], key)), NoErr, env2)}
         ELSE {})

\* mgr.AccessCache + cache.Set: the write may fail in the backend.
CacheSet(env, name, key, value) ==
    LET env2 == [env EXCEPT !.acc = @ \cup {name}]
    IN  {Out(GoNil, ErrNotSet, env2)} \cup
        (IF name \in MgrCaches
         THEN {Out(GoNil, NoErr,
                   [env2 EXCEPT !.store[name] = MetaSetMut(@, key, value)])}
         ELSE {})

getMeta(args, env) ==
    LET pa == parseArgs(args, <<StrDest("")>>)
        name == pa.ptrs[1].val.s
    IN  IF pa.err # NoErr THEN {Out(GoNil, pa.err, env)}
        ELSE IF ~MetaHas(env.msg.meta, name)
             THEN {Out(GoNil, ErrNotFound, env)}
        ELSE {Out(GoStr(IToString(MetaGetMut(env.msg.meta, name))), NoErr, env)}

\* A setMeta that goes on after a marshalling error.
setMetaIgnoringError(args, env) ==
    LET pa == parseArgs(args, <<StrDest(""), StrDest("")>>)
        name == pa.ptrs[1].val.s
        value == pa.ptrs[2].val.s
        err == IF pa.err # NoErr THEN pa.err ELSE NoErr
    IN  IF value = ""
        THEN {Out(GoNil, err, [env EXCEPT !.msg.meta = MetaDelete(@, name)])}
        ELSE {Out(GoNil, err,
                  [env EXCEPT !.msg.meta = MetaSetMut(@, name, GoStr(value))])}

\* A setMeta that stores the empty string like any other value.
setMetaNoDelete(args, env) ==
    LET pa == parseArgs(args, <<StrDest(""), StrDest("")>>)
    IN  IF pa.err # NoErr THEN {Out(GoStr(""), pa.err, env)}
        ELSE {Out(GoNil, NoErr,
                  [env EXCEPT !.msg.meta =
                      MetaSetMut(@, pa.ptrs[1].val.s, pa.ptrs[2].val)])}

setMeta(args, env) ==
    LET pa == parseArgs(args, <<StrDest(""), StrDest("")>>)
        name == pa.ptrs[1].val.s
        value == pa.ptrs[2].val.s
    IN  IF pa.err # NoErr THEN {Out(GoStr(""), pa.err, env)}
        ELSE IF value = ""
             THEN {Out(GoNil, NoErr,
                       [env EXCEPT !.msg.meta = MetaDelete(@, name)])}
        ELSE {Out(GoNil, NoErr,
                  [env EXCEPT !.msg.meta = MetaSetMut(@, name, GoStr(value))])}

setRoot(args, env) ==
    LET pa == parseArgs(args, <<AnyDest>>)
    IN  IF pa.err # NoErr THEN {Out(GoNil, pa.err, env)}
        ELSE {Out(GoNil, NoErr, [env EXCEPT !.msg.root = pa.ptrs[1].val])}

getRoot(args, env) ==
    IF env.msg.root = Invalid THEN {Out(GoNil, ErrInvalidPayload, env)}
    ELSE {Out(env.msg.root, NoErr, env)}

\* getCacheRes without the check against the configured list.
getCacheResUnchecked(cfg, args, env) ==
    LET pa == parseArgs(args, <<StrDest(""), StrDest("")>>)
    IN  IF pa.err # NoErr THEN {Out(GoNil, pa.err, env)}
        ELSE CacheGet(env, pa.ptrs[1].val.s, pa.ptrs[2].val.s)

getCacheRes(caches, args, env) ==
    LET pa == parseArgs(args, <<StrDest(""), StrDest("")>>)
        cacheName == pa.ptrs[1].val.s
        key == pa.ptrs[2].val.s
        isOK == \E i \in DOMAIN caches : caches[i] = cacheName
    IN  IF pa.err # NoErr THEN {Out(GoNil, pa.err, env)}
        ELSE IF ~isOK THEN {Out(GoNil, ErrNotCacheRes, env)}
        ELSE CacheGet(env, cacheName, key)

setCacheRes(caches, args, env) ==
    LET pa == parseArgs(args, <<StrDest(""), StrDest(""), StrDest("")>>)
        cacheName == pa.ptrs[1].val.s
        key == pa.ptrs[2].val.s
        value == pa.ptrs[3].val.s
        isOK == \E i \in DOMAIN caches : caches[i] = cacheName
    IN  IF pa.err # NoErr THEN {Out(GoStr(""), pa.err, env)}
        ELSE IF ~isOK THEN {Out(GoNil, ErrNotCacheRes, env)}
        ELSE CacheSet(env, cacheName, key, value)

\* A getCache that targets the last configured resource.
getCacheLast(cfg, args, env) ==
    LET pa == parseArgs(args, <<StrDest("")>>)
    IN  IF pa.err # NoErr THEN {Out(GoNil, pa.err, env)}
        ELSE IF Len(cfg) > 0 THEN CacheGet(env, cfg[Len(cfg)], pa.ptrs[1].val.s)
        ELSE {Out(GoNil, ErrNotCacheRes, env)}

getCache(caches, args, env) ==
    LET pa == parseArgs(args, <<StrDest("")>>)
        key == pa.ptrs[1].val.s
    IN  IF pa.err # NoErr THEN {Out(GoNil, pa.err, env)}
        ELSE IF Len(caches) > 0 THEN CacheGet(env, caches[1], key)
        ELSE {Out(GoNil, ErrNotCacheRes, env)}

setCache(caches, args, env) ==
    LET pa == parseArgs(args, <<StrDest(""), StrDest("")>>)
        key == pa.ptrs[1].val.s
        value == pa.ptrs[2].val.s
    IN  IF pa.err # NoErr THEN {Out(GoStr(""), pa.err, env)}
        ELSE IF Len(caches) > 0 THEN CacheSet(env, caches[1], key, value)
        ELSE {Out(GoNil, ErrNotCacheRes, env)}

\* fetch: the request itself is outside the stage; it answers or fails.
fetch(args, env) ==
    LET pa == parseArgs(args, <<StrDest(""), StrDest(""), StrDest("GET"),
                                StrDest("")>>)
    IN  IF pa.err # NoErr THEN {Out(GoNil, pa.err, env)}
        ELSE {Out(GoNil, ErrFetch, env), Out(GoMap, NoErr, env)}

\* The host functions that never block, by the name getVM registers them
\* under.
HostBody(caches, f, args, env) ==
    CASE f = "fetch" -> fetch(args, env)
      [] f = "getMeta" -> getMeta(args, env)
      [] f = "setMeta" -> setMeta(args, env)
      [] f = "setRoot" -> setRoot(args, env)
      [] f = "getRoot" -> getRoot(args, env)
      [] f = "getCacheRes" -> getCacheRes(caches, args, env)
      [] f = "setCacheRes" -> setCacheRes(caches, args, env)
      [] f = "getCache" -> getCache(caches, args, env)
      [] f = "setCache" -> setCache(caches, args, env)

PlainFns == {"fetch", "getMeta", "setMeta", "setRoot", "getRoot",
             "getCacheRes", "setCacheRes", "getCache", "setCache"}
HostFns == PlainFns \cup {"benthos_output"}

\* The argument lists the modelled scripts pass.
ArgLists(f) ==
    CASE f = "fetch" -> {<<Str("u")>>, <<Undefined>>,
                         <<Str("u"), Str(""), Str("GET"), Str(""), Str("")>>}
      [] f = "getMeta" -> {<<Str("k")>>, <<Undefined>>, <<Str("k"), Str("k")>>}
      [] f = "setMeta" -> {<<Str("k"), Str("v")>>, <<Str("k"), Str("")>>,
                           <<Str("k"), Undefined>>,
                           <<Str("k"), Str("v"), Str("v")>>}
      [] f = "setRoot" -> {<<Str("r")>>, <<Undefined>>, <<Str("r"), Str("r")>>}
      [] f = "getRoot" -> {<< >>}
      [] f = "getCacheRes" -> {<<Str("c1"), Str("k")>>, <<Str("c2"), Str("k")>>,
                               <<Str("c2"), Undefined>>,
                               <<Str("c2"), Str("k"), Str("k")>>}
      [] f = "setCacheRes" -> {<<Str("c1"), Str("k"), Str("v")>>,
                               <<Str("c2"), Str("k"), Str("v")>>,
                               <<Str("c2"), Str("k"), Undefined>>,
                               <<Str("c2"), Str("k"), Str("v"), Str("v")>>}
      [] f = "getCache" -> {<<Str("k")>>, <<Undefined>>, <<Str("k"), Str("k")>>}
      [] f = "setCache" -> {<<Str("k"), Str("v")>>, <<Str("k"), Undefined>>,
                            <<Str("k"), Str("v"), Str("v")>>}
      [] f = "benthos_output" -> {<<Str("a"), Str("v")>>, <<Str("b"), Str("v")>>,
                                  <<Str("zz"), Str("v")>>,
                                  <<Str("a"), Undefined>>,
                                  <<Str("a"), Str("v"), Str("v")>>}

\* The calls of the scripts that work on the message: keys the message has
\* and has not, values that are strings, the empty string, numbers, objects.
MsgFns == {"getMeta", "setMeta", "setRoot", "getRoot"}

MsgArgLists(f) ==
    CASE f = "getMeta" -> {<<Str("k")>>, <<Str("j")>>, <<Undefined>>}
      [] f = "setMeta" -> {<<Str("k"), Str("v")>>, <<Str("k"), Str("")>>,
                           <<Str("j"), Str("w")>>, <<Str("k"), Num(5)>>,
                           <<Str("k"), Undefined>>}
      [] f = "setRoot" -> {<<Obj>>, <<Str("r")>>, <<Undefined>>}
      [] f = "getRoot" -> {<< >>}

\* The calls of the scripts that work on the caches, and the cache_res
\* lists they run under: none, and two resources.
CacheFns == {"getCacheRes", "setCacheRes", "getCache", "setCache"}
TwoCacheConfs == {<< >>, <<"c2", "c1">>}

CacheArgLists(f) ==
    CASE f = "getCache" -> {<<Str("k")>>, <<Num(5)>>, <<Undefined>>,
                            <<Str("k"), Str("k")>>}
      [] f = "setCache" -> {<<Str("k"), Str("v")>>, <<Str("k"), Undefined>>,
                            <<Str("k"), Str("v"), Str("v")>>}
      [] f = "getCacheRes" -> {<<Str("c2"), Str("k")>>, <<Str("c1"), Str("k")>>}
      [] f = "setCacheRes" -> {<<Str("c2"), Str("k"), Str("w")>>,
                               <<Str("c1"), Str("k"), Str("x")>>}

\* The sends of the scripts run while the stage is started and shut down,
\* and the host calls of the scripts that write interpreter state.
LifeSends == {<<Str("a"), Str("v")>>, <<Str("b"), Str("v")>>}
VMCalls == {<<"getMeta", <<Str("k")>> >>, <<"setMeta", <<Str("k"), Str("v")>> >>}

(* ------------------------------- state -------------------------------- *)
VARIABLES
    inputs,        \* the contents of the messages the pipeline hands over
    conf,          \* the configuration the constructor was called with
    newErr,        \* the error the constructor returned
    created,       \* the sinks mgr.NewOutput has created, in order
    attached,      \* the created sinks Consume has given a channel
    paArgs,        \* parseArgs called on its own: call.Arguments
    paPtrs,        \* the destinations before the call
    paOut,         \* the error returned and the destinations after it
    variant,       \* "processor" (javascriptProc) or "output" (javascriptOutput)
    caches,        \* j.caches: the configured cache_res list
    outputs,       \* j.outputs: the configured output_res list
    mut,           \* j.mut: the caller holding it, 0 when free
    vm,            \* the interpreter getVM built last: the message it is
                   \* bound to, the globals and the host function names
                   \* the script wrote, and whether the script holds the
                   \* structure getRoot gave it
    pc,            \* per caller: "idle", "run", "send" (blocked in the
                   \* select of benthos_output) or "panic"
    batchLen,      \* per caller: messages in the batch being written
    idx,           \* per caller: position in the batch, from 1
    msg,           \* per caller: the message being executed
    call,          \* per caller: the last host call of the running script:
                   \* its name and arguments, the value the script got,
                   \* the error of the body and the line logged for it
    send,          \* per caller: the transaction offered on a sink channel
    batchErr,      \* per caller: IterateBatchedSend has seen an error
    result,        \* per caller: what Process / WriteBatch returned last
    faulted,       \* per caller: RunProgram returned an uncaught fault
    consumePc,     \* per Consume caller: "idle", or "checked" between
                   \* its read of j.transactions and its write
    received,      \* transactions taken from the upstream channel
    transactions,  \* j.transactions: "nil" or "set"
    consumeRet,    \* what Consume returned last
    upstream,      \* the upstream transaction channel: "open" or "closed"
    closeNow,      \* shutSig: CloseNow has been called
    hasClosed,     \* shutSig: ShutdownComplete has been called
    waitRet,       \* what WaitForClose returned last
    loopPc,        \* per loop goroutine: where it is, "none" before
                   \* it is started
    loopIdx,       \* its index into outputTSChans / outputStreams
    ackPending,    \* its pending-acknowledgement counter
    chanClosed,    \* per sink: outputTSChans[i] is closed
    sinkState,     \* per sink: "running", "drained" (stopped by itself, not
                   \* told to close), "closing" (told to close) or "closed"
    sinkGot,       \* per sink: the batches taken from its channel
    store,         \* the cache backends: per resource, <<key, value>> pairs
    accessed       \* the cache resources reached through AccessCache

callerVars == <<pc, batchLen, idx, msg, call, send, batchErr, result, faulted>>
loopVars == <<consumePc, received, transactions, consumeRet, upstream, closeNow,
              hasClosed, waitRet, loopPc, loopIdx, ackPending>>
sinkVars == <<chanClosed, sinkState, sinkGot>>
confVars == <<inputs, conf, newErr, created, attached, paArgs, paPtrs, paOut,
              variant, caches, outputs>>
hostVars == <<store, accessed>>
vars == <<confVars, mut, vm, callerVars, loopVars, sinkVars, hostVars>>

Sinks == DOMAIN outputs

NoCall == [fn |-> "none", args |-> << >>, ret |-> Null, err |-> NoErr,
           log |-> NoErr]
NoSend == [idx |-> 0, args |-> << >>, value |-> ""]
NoResult == [err |-> "no result", ids |-> << >>]
NoVM == [msg |-> <<0, 0>>, globals |-> {}, overridden |-> {}, view |-> FALSE]

\* An unrecovered Go panic ends the process: nothing runs after it.
NoPanic ==
    /\ \A e \in Callers : pc[e] # "panic"
    /\ \A l \in Consumers : loopPc[l] # "panic"

InitWith(variants, cacheConfs) ==
    /\ variant \in variants
    /\ caches \in cacheConfs
    /\ outputs \in (IF variant = "output" THEN OutputConfs ELSE {<< >>})
    /\ mut = 0
    /\ vm = NoVM
    /\ pc = [e \in Callers |-> "idle"]
    /\ batchLen = [e \in Callers |-> 0]
    /\ idx = [e \in Callers |-> 0]
    /\ msg = [e \in Callers |-> NoMsg]
    /\ call = [e \in Callers |-> NoCall]
    /\ send = [e \in Callers |-> NoSend]
    /\ batchErr = [e \in Callers |-> FALSE]
    /\ result = [e \in Callers |-> NoResult]
    /\ faulted = [e \in Callers |-> FALSE]
    /\ consumePc = [k \in Consumers |-> "idle"]
    /\ received = 0
    /\ transactions = "nil"
    /\ consumeRet = "none"
    /\ upstream = "open"
    /\ closeNow = FALSE
    /\ hasClosed = FALSE
    /\ waitRet = "none"
    /\ loopPc = [l \in Consumers |-> "none"]
    /\ loopIdx = [l \in Consumers |-> 0]
    /\ ackPending = [l \in Consumers |-> 0]
    /\ chanClosed = [i \in DOMAIN outputs |-> FALSE]
    /\ sinkState = [i \in DOMAIN outputs |-> "running"]
    /\ sinkGot = [i \in DOMAIN outputs |-> << >>]
    /\ store = [c \in MgrCaches |-> {}]
    /\ accessed = {}

(* --------------------------- construction ----------------------------- *)
ErrBothCodeFile == "both 'code' and 'file' fields are specified"
ErrNeitherCodeFile == "neither 'code' nor 'file' fields are specified"
ErrOpenFile == "failed to open the file specifed in 'file' field"
ErrCompile == "failed to compile javascript code"
ErrNewOutput == "mgr.NewOutput failed"
ErrSinkConsume == "sink Consume failed"

\* A configuration: the variant it is for and its fields.
Conf(kind, code, file, cacheRes, outputRes) ==
    [kind |-> kind, code |-> code, file |-> file, cacheRes |-> cacheRes,
     outputRes |-> outputRes]
NoConf == Conf("none", "", "", << >>, << >>)

\* The configurations tried: code that compiles ("js") and that does not
\* ("bad"), a file that holds code that compiles ("f.js") and one that
\* cannot be read ("missing.js").
Codes == {"", "js", "bad"}
Files == {"", "f.js", "missing.js"}
NewConfs ==
    {Conf(k, c, f, <<"c1">>, IF k = "output" THEN <<"a", "b">> ELSE << >>) :
        k \in {"processor", "output"}, c \in Codes, f \in Files}

\* os.ReadFile and goja.Compile.
Readable(file) == file = "f.js"
Compiles(code) == code = "js"

\* An outcome of a constructor: its error, and the sinks it created and
\* attached on the way.
NewOut(err, made, att) == [err |-> err, created |-> made, attached |-> att]

\* A check that lets code win when both fields are given.
ConfCheckCodeWins(c) ==
    IF c.code = "" /\ c.file = "" THEN ErrNeitherCodeFile ELSE NoErr

\* The first two statements of both constructors.
ConfCheck(c) ==
    IF c.code # "" /\ c.file # "" THEN ErrBothCodeFile
    ELSE IF c.code = "" /\ c.file = "" THEN ErrNeitherCodeFile
    ELSE NoErr

\* The file read and the compilation of both constructors.
LoadProgram(c) ==
    IF c.file # "" /\ ~Readable(c.file) THEN ErrOpenFile
    ELSE IF c.file = "" /\ ~Compiles(c.code) THEN ErrCompile
    ELSE NoErr

\* newJavaScript: the check, then the program.
newJavaScript(c) ==
    IF ConfCheck(c) # NoErr THEN {NewOut(ConfCheck(c), << >>, {})}
    ELSE {NewOut(LoadProgram(c), << >>, {})}

\* newJavaScriptWriter: the check, a sink per output_res entry (any
\* mgr.NewOutput may fail), a channel per sink (any Consume may fail), then
\* the program.
newJavaScriptWriter(c) ==
    LET n == Len(c.outputRes)
    IN  IF ConfCheck(c) # NoErr THEN {NewOut(ConfCheck(c), << >>, {})}
        ELSE {NewOut(ErrNewOutput, SubSeq(c.outputRes, 1, i - 1), {}) :
                 i \in 1..n}
             \cup {NewOut(ErrSinkConsume, c.outputRes, 1..(i - 1)) : i \in 1..n}
             \cup {NewOut(LoadProgram(c), c.outputRes, 1..n)}

\* A constructor call.  Only a successful one returns a stage.
Construct(c) ==
    /\ conf = NoConf
    /\ conf' = c
    /\ \E o \in (IF c.kind = "output" THEN newJavaScriptWriter(c)
                  ELSE newJavaScript(c)) :
          /\ newErr' = o.err
          /\ created' = o.created
          /\ attached' = o.attached
          /\ IF o.err = NoErr
             THEN /\ variant' = c.kind
                  /\ caches' = c.cacheRes
                  /\ outputs' = c.outputRes
                  /\ chanClosed' = [i \in DOMAIN c.outputRes |-> FALSE]
                  /\ sinkState' = [i \in DOMAIN c.outputRes |-> "running"]
                  /\ sinkGot' = [i \in DOMAIN c.outputRes |-> << >>]
             ELSE UNCHANGED <<variant, caches, outputs, sinkVars>>
    /\ UNCHANGED <<inputs, paArgs, paPtrs, paOut, mut, vm, callerVars, loopVars,
                   hostVars>>

\* The state a successful constructor call leaves, and the state before any.
Built ==
    /\ conf = Conf(variant, "js", "", caches, outputs)
    /\ newErr = NoErr
    /\ created = outputs
    /\ attached = DOMAIN outputs

NotBuilt ==
    /\ conf = NoConf
    /\ newErr = NoErr
    /\ created = << >>
    /\ attached = {}

(* ------------------------- parseArgs alone ---------------------------- *)
\* The argument values and the destinations parseArgs is called with: a
\* string, a number, an object, an array and undefined; destinations of
\* the types of the switch, holding a value already, and one of a type the
\* switch has no case for.
ArgValues == {Str("s"), Num(5), Obj, Arr, Undefined}
Dests == {StrDest("d"), Dest("int", GoInt(9)), AnyDest, Dest("map", GoMap),
          Dest("slice", GoSlice), Dest("uint", GoInt(9))}

SeqsUpTo(S, n) == UNION {[1..k -> S] : k \in 0..n}

NoParseOut == [err |-> "not called", ptrs |-> << >>]

NoParse ==
    /\ paArgs = << >>
    /\ paPtrs = << >>
    /\ paOut = NoParseOut

ParseArgsCall ==
    /\ paOut = NoParseOut
    /\ paOut' = parseArgs(paArgs, paPtrs)
    /\ UNCHANGED <<inputs, conf, newErr, created, attached, paArgs, paPtrs,
                   variant, caches, outputs, mut, vm, callerVars, loopVars,
                   sinkVars, hostVars>>

(* --------------------------- executions ------------------------------- *)
\* A lock that lets every caller in.
LockAlwaysFree == TRUE

\* sync.Mutex.Lock returns only when the mutex is free.
LockFree == mut = 0

\* An interpreter kept by the stage and used again when there is one.
getVMReused(id) ==
    IF vm = [msg |-> <<0, 0>>, globals |-> {}, overridden |-> {}, view |-> FALSE]
    THEN [msg |-> id, globals |-> {}, overridden |-> {}, view |-> FALSE]
    ELSE vm

\* getVM: a new interpreter whose host functions close over the message.
getVM(id) == [msg |-> id, globals |-> {}, overridden |-> {}, view |-> FALSE]

\* A wrapper that raises the error of the body in the script.
setFunctionThrowing(res, err) ==
    IF err # NoErr THEN [ret |-> Null, log |-> err, throw |-> TRUE]
    ELSE [ret |-> ToValue(res), log |-> NoErr, throw |-> FALSE]

\* setFunction: the wrapper every host function is registered through. It
\* gives the script null and logs when the body returns an error, and never
\* raises an exception in the script.
setFunction(res, err) ==
    IF err # NoErr THEN [ret |-> Null, log |-> err, throw |-> FALSE]
    ELSE [ret |-> ToValue(res), log |-> NoErr, throw |-> FALSE]

\* The start of one execution of caller e on message i of its batch.
StartMessage(e, i, c, mbase) ==
    /\ idx' = [idx EXCEPT ![e] = i]
    /\ msg' = [mbase EXCEPT ![e] = Msg(<<e, i>>, c.meta, c.root)]
    /\ vm' = getVM(<<e, i>>)

\* javascriptProc.Process up to RunProgram.
Process(e) ==
    /\ NoPanic
    /\ variant = "processor"
    /\ pc[e] = "idle"
    /\ LockFree
    /\ mut' = e
    /\ pc' = [pc EXCEPT ![e] = "run"]
    /\ batchLen' = [batchLen EXCEPT ![e] = 1]
    /\ \E c \in inputs : StartMessage(e, 1, c, msg)
    /\ call' = [call EXCEPT ![e] = NoCall]
    /\ batchErr' = [batchErr EXCEPT ![e] = FALSE]
    /\ faulted' = [faulted EXCEPT ![e] = FALSE]
    /\ result' = [result EXCEPT ![e] = NoResult]
    /\ UNCHANGED <<confVars, send, loopVars, sinkVars, hostVars>>

\* javascriptOutput.WriteBatch up to the first RunProgram.
WriteBatch(e) ==
    /\ NoPanic
    /\ variant = "output"
    /\ pc[e] = "idle"
    /\ LockFree
    /\ mut' = e
    /\ pc' = [pc EXCEPT ![e] = "run"]
    /\ \E n \in 1..MaxBatch : batchLen' = [batchLen EXCEPT ![e] = n]
    /\ \E c \in inputs : StartMessage(e, 1, c, msg)
    /\ call' = [call EXCEPT ![e] = NoCall]
    /\ batchErr' = [batchErr EXCEPT ![e] = FALSE]
    /\ faulted' = [faulted EXCEPT ![e] = FALSE]
    /\ result' = [result EXCEPT ![e] = NoResult]
    /\ UNCHANGED <<confVars, send, loopVars, sinkVars, hostVars>>

\* A Process that hands the message on whatever RunProgram returned.
ProcessReturnForwarding(err, id) ==
    [err |-> IF err THEN ErrScript ELSE NoErr, ids |-> <<id>>]

\* What Process returns after RunProgram: (nil, err) on an error, and
\* ([]*message.Part{msg}, nil) otherwise.
ProcessReturn(err, id) ==
    IF err THEN [err |-> ErrScript, ids |-> << >>]
    ELSE [err |-> NoErr, ids |-> <<id>>]

\* RunProgram has returned for the current message, with a fault or not:
\* Process returns; IterateBatchedSend goes on to the next message of the
\* batch or returns, and the deferred Unlock runs.  mbase is msg as the last
\* statement of the script left it.  The interpreter is garbage from here.
Return(e, err, mbase) ==
    LET anyErr == batchErr[e] \/ err
    IN  /\ call' = [call EXCEPT ![e] = NoCall]
        /\ batchErr' = [batchErr EXCEPT ![e] = anyErr]
        /\ IF variant = "output" /\ idx[e] < batchLen[e]
           THEN /\ \E c \in inputs : StartMessage(e, idx[e] + 1, c, mbase)
                /\ UNCHANGED <<mut, pc, batchLen, result>>
           ELSE /\ mut' = 0
                /\ pc' = [pc EXCEPT ![e] = "idle"]
                /\ idx' = [idx EXCEPT ![e] = 0]
                /\ batchLen' = [batchLen EXCEPT ![e] = 0]
                /\ msg' = [mbase EXCEPT ![e] = NoMsg]
                /\ vm' = NoVM
                /\ result' = [result EXCEPT ![e] =
                      IF variant = "processor"
                      THEN ProcessReturn(err, mbase[e].id)
                      ELSE [err |-> IF anyErr THEN ErrScript ELSE NoErr,
                            ids |-> << >>]]

\* Whether the script holds the message's structure after a host call:
\* getRoot hands it the structure AsStructuredMut returned, wrapped by
\* rt.ToValue without a copy, and SetStructured gives the message another.
ViewAfter(f, o, view) ==
    IF o.err # NoErr THEN view
    ELSE IF f = "getRoot" THEN o.res.t = "map"
    ELSE IF f = "setRoot" THEN FALSE
    ELSE view

\* The script calls a host function other than benthos_output.  The body
\* acts on the message the interpreter was built for.
HostCall(e, f, args) ==
    /\ NoPanic
    /\ pc[e] = "run"
    /\ f \notin vm.overridden
    /\ LET t == vm.msg[1]
       IN  /\ t \in Callers
           /\ \E o \in HostBody(caches, f, args, Env(msg[t], store, accessed)) :
                LET r == setFunction(o.res, o.err)
                    mbase == [msg EXCEPT ![t] = o.env.msg]
                IN  /\ store' = o.env.store
                    /\ accessed' = o.env.acc
                    /\ IF r.throw
                       THEN /\ Return(e, TRUE, mbase)
                            /\ UNCHANGED faulted
                       ELSE /\ msg' = mbase
                            /\ vm' = [vm EXCEPT !.view = ViewAfter(f, o, @)]
                            /\ call' = [call EXCEPT ![e] =
                                  [fn |-> f, args |-> args, ret |-> r.ret,
                                   err |-> o.err, log |-> r.log]]
                            /\ UNCHANGED <<mut, pc, batchLen, idx, batchErr,
                                           result, faulted>>
    /\ UNCHANGED <<confVars, send, loopVars, sinkVars>>

\* The script assigns a global variable: the value carries the message of
\* the execution that wrote it.
ScriptSetGlobal(e) ==
    /\ NoPanic
    /\ pc[e] = "run"
    /\ vm' = [vm EXCEPT !.globals = @ \cup {msg[e].id}]
    /\ UNCHANGED <<confVars, mut, callerVars, loopVars, sinkVars, hostVars>>

\* The script assigns to the name of a host function.
OverridableFns == {"getMeta"}

ScriptOverride(e, f) ==
    /\ NoPanic
    /\ pc[e] = "run"
    /\ vm' = [vm EXCEPT !.overridden = @ \cup {f}]
    /\ UNCHANGED <<confVars, mut, callerVars, loopVars, sinkVars, hostVars>>

\* The script writes into the structure getRoot gave it.  The structure is
\* the one the message holds, so the write is a write to the payload.
Mutated(g) == [g EXCEPT !.s = "mutated"]

ScriptMutateRoot(e) ==
    /\ NoPanic
    /\ pc[e] = "run"
    /\ vm.view
    /\ msg' = [msg EXCEPT ![vm.msg[1]].root = Mutated(@)]
    /\ UNCHANGED <<confVars, mut, vm, pc, batchLen, idx, call, send, batchErr,
                   result, faulted, loopVars, sinkVars, hostVars>>

\* The script raises a fault nothing catches: RunProgram returns an error.
ScriptThrow(e) ==
    /\ NoPanic
    /\ pc[e] = "run"
    /\ faulted' = [faulted EXCEPT ![e] = TRUE]
    /\ Return(e, TRUE, msg)
    /\ UNCHANGED <<confVars, send, loopVars, sinkVars, hostVars>>

\* The script runs to its end: RunProgram returns no error.
ScriptFinish(e) ==
    /\ NoPanic
    /\ pc[e] = "run"
    /\ Return(e, FALSE, msg)
    /\ UNCHANGED <<confVars, send, faulted, loopVars, sinkVars, hostVars>>

(* --------------------------- benthos_output --------------------------- *)
\* A lookup that starts from the first channel instead of from -1.
OutputIndexFromFirst(resName) ==
    LET hits == {i \in DOMAIN outputs : outputs[i] = resName}
    IN  IF hits = {} THEN 1 ELSE CHOOSE i \in hits : \A k \in hits : k <= i

\* The index the lookup loop of benthos_output ends with: the last position
\* of resName in j.outputs, 0 when there is none (idx < 0 in the code).
OutputIndex(resName) ==
    LET hits == {i \in DOMAIN outputs : outputs[i] = resName}
    IN  IF hits = {} THEN 0 ELSE CHOOSE i \in hits : \A k \in hits : k <= i

\* benthos_output up to its select: the error it returns before sending, or
\* the channel and the value it is about to send.
benthos_output(args) ==
    LET pa == parseArgs(args, <<StrDest(""), StrDest("")>>)
        resName == pa.ptrs[1].val.s
        value == pa.ptrs[2].val.s
        i == OutputIndex(resName)
    IN  IF variant # "output" THEN [err |-> ErrRunInProcessor, idx |-> 0, value |-> ""]
        ELSE IF pa.err # NoErr THEN [err |-> pa.err, idx |-> 0, value |-> ""]
        ELSE IF i = 0 THEN [err |-> ErrNotOutputRes, idx |-> 0, value |-> ""]
        ELSE [err |-> NoErr, idx |-> i, value |-> value]

\* The end of a benthos_output call that returns to the script.
OutputReturns(e, args, err) ==
    LET r == setFunction(GoNil, err)
    IN  /\ send' = [send EXCEPT ![e] = NoSend]
        /\ IF r.throw
           THEN Return(e, TRUE, msg)
           ELSE /\ pc' = [pc EXCEPT ![e] = "run"]
                /\ call' = [call EXCEPT ![e] =
                      [fn |-> "benthos_output", args |-> args, ret |-> r.ret,
                       err |-> err, log |-> r.log]]
                /\ UNCHANGED <<mut, vm, batchLen, idx, msg, batchErr, result>>

\* A send on a closed channel panics; the deferred Unlock of WriteBatch runs
\* while the panic unwinds.
SendOnClosed(e) ==
    /\ pc' = [pc EXCEPT ![e] = "panic"]
    /\ mut' = 0
    /\ UNCHANGED <<vm, batchLen, idx, msg, call, send, batchErr, result>>

\* The script calls benthos_output: it fails before the select, or reaches
\* the select, where a closed channel panics at once and an open one leaves
\* the caller blocked until the sink receives or the second has passed.
BenthosOutput(e, args) ==
    /\ NoPanic
    /\ pc[e] = "run"
    /\ "benthos_output" \notin vm.overridden
    /\ LET b == benthos_output(args)
       IN  IF b.err # NoErr THEN OutputReturns(e, args, b.err)
           ELSE IF chanClosed[b.idx] THEN SendOnClosed(e)
           ELSE /\ pc' = [pc EXCEPT ![e] = "send"]
                /\ send' = [send EXCEPT ![e] = [idx |-> b.idx, args |-> args,
                                                value |-> b.value]]
                /\ UNCHANGED <<mut, vm, batchLen, idx, msg, call, batchErr,
                               result>>
    /\ UNCHANGED <<confVars, faulted, loopVars, sinkVars, hostVars>>

\* message.QuickBatch([][]byte{[]byte(value)}): a batch of one message.
QuickBatch(value) == <<value>>

\* The sink takes the transaction the blocked caller offers.
SinkReceive(i, e) ==
    /\ NoPanic
    /\ pc[e] = "send"
    /\ send[e].idx = i
    /\ ~chanClosed[i]
    /\ sinkState[i] = "running"
    /\ Len(sinkGot[i]) < MaxGot
    /\ sinkGot' = [sinkGot EXCEPT ![i] = Append(@, QuickBatch(send[e].value))]
    /\ OutputReturns(e, send[e].args, NoErr)
    /\ UNCHANGED <<confVars, faulted, loopVars, chanClosed, sinkState,
                   hostVars>>

\* time.After(time.Second) fires first.
SendTimeout(e) ==
    /\ NoPanic
    /\ pc[e] = "send"
    /\ OutputReturns(e, send[e].args, ErrOutputTimeout)
    /\ UNCHANGED <<confVars, faulted, loopVars, sinkVars, hostVars>>

\* The channel is closed under the blocked sender.
SendPanic(e) ==
    /\ NoPanic
    /\ pc[e] = "send"
    /\ chanClosed[send[e].idx]
    /\ SendOnClosed(e)
    /\ UNCHANGED <<confVars, faulted, loopVars, sinkVars, hostVars>>

(* ------------------------------ sinks --------------------------------- *)
\* An owned sink (output.Streamed) stops by itself once the channel it
\* consumes is closed and drained.
SinkDrain(i) ==
    /\ NoPanic
    /\ chanClosed[i]
    /\ sinkState[i] = "running"
    /\ sinkState' = [sinkState EXCEPT ![i] = "drained"]
    /\ UNCHANGED <<confVars, mut, vm, callerVars, loopVars, chanClosed, sinkGot,
                   hostVars>>

\* An owned sink finishes closing after TriggerCloseNow.
SinkClose(i) ==
    /\ NoPanic
    /\ sinkState[i] = "closing"
    /\ sinkState' = [sinkState EXCEPT ![i] = "closed"]
    /\ UNCHANGED <<confVars, mut, vm, callerVars, loopVars, chanClosed, sinkGot,
                   hostVars>>

(* --------------------------- dispatch loop ---------------------------- *)
loopRest == <<consumePc, received, transactions, consumeRet, upstream,
              closeNow, hasClosed, waitRet, ackPending>>

\* A stage that takes every Consume as its first.
NeverStarted == FALSE

\* if j.transactions != nil
AlreadyStarted == transactions # "nil"

\* javascriptOutput.Consume, called by goroutine k.  The field is read and
\* then written with no lock held: another Consume may run between the two.
\* The loop goroutine a call starts carries the number of its caller.
Consume(k) ==
    /\ NoPanic
    /\ variant = "output"
    /\ \/ /\ consumePc[k] = "idle"
          /\ IF AlreadyStarted
             THEN /\ consumeRet' = "ErrAlreadyStarted"
                  /\ UNCHANGED consumePc
             ELSE /\ consumePc' = [consumePc EXCEPT ![k] = "checked"]
                  /\ UNCHANGED consumeRet
          /\ UNCHANGED <<transactions, loopPc, loopIdx>>
       \/ /\ consumePc[k] = "checked"
          /\ transactions' = "set"
          /\ loopPc' = [loopPc EXCEPT ![k] = "check"]
          /\ loopIdx' = [loopIdx EXCEPT ![k] = 0]
          /\ consumeRet' = "nil"
          /\ consumePc' = [consumePc EXCEPT ![k] = "idle"]
    /\ UNCHANGED <<confVars, mut, vm, callerVars, received, upstream, closeNow,
                   hasClosed, waitRet, ackPending, sinkVars, hostVars>>

\* javascriptOutput.TriggerCloseNow.
TriggerCloseNow ==
    /\ NoPanic
    /\ variant = "output"
    /\ closeNow' = TRUE
    /\ UNCHANGED <<confVars, mut, vm, callerVars, consumePc, received,
                   transactions, consumeRet, upstream, hasClosed, waitRet,
                   loopPc, loopIdx, ackPending, sinkVars, hostVars>>

\* The owner of the upstream transaction channel closes it.
UpstreamClose ==
    /\ NoPanic
    /\ variant = "output"
    /\ upstream = "open"
    /\ upstream' = "closed"
    /\ UNCHANGED <<confVars, mut, vm, callerVars, consumePc, received,
                   transactions, consumeRet, closeNow, hasClosed, waitRet,
                   loopPc, loopIdx, ackPending, sinkVars, hostVars>>

\* javascriptOutput.WaitForClose(ctx): nil once the signal is complete, the
\* context's error when the context is done; with neither it blocks, with
\* both the select takes either.
WaitForClose(ctxDone) ==
    /\ NoPanic
    /\ variant = "output"
    /\ \/ hasClosed /\ waitRet' = "nil"
       \/ ctxDone /\ waitRet' = "ctx.Err"
    /\ UNCHANGED <<confVars, mut, vm, callerVars, consumePc, received,
                   transactions, consumeRet, upstream, closeNow, hasClosed,
                   loopPc, loopIdx, ackPending, sinkVars, hostVars>>

\* Where the deferred function goes after a phase over the sinks, and where
\* it starts.
PhaseAfter(phase) ==
    CASE phase = "ackwait" -> "closeChans"
      [] phase = "closeChans" -> "trigger"
      [] phase = "trigger" -> "wait"
      [] phase = "wait" -> "complete"

LoopAdvance(l, phase, i) ==
    LET LoopAt(p, n) == /\ loopPc' = [loopPc EXCEPT ![l] = p]
                        /\ loopIdx' = [loopIdx EXCEPT ![l] = n]
    IN  IF i < Len(outputs)
        THEN LoopAt(phase, i + 1)
        ELSE IF phase = "wait" \/ Len(outputs) = 0
             THEN LoopAt("complete", 0)
             ELSE LoopAt(PhaseAfter(phase), 1)

\* for !j.shutSig.ShouldCloseNow()
LoopCheck(l) ==
    /\ NoPanic
    /\ loopPc[l] = "check"
    /\ loopPc' = [loopPc EXCEPT ![l] = IF closeNow THEN "ackwait" ELSE "select"]
    /\ UNCHANGED <<confVars, mut, vm, callerVars, loopIdx, loopRest, sinkVars,
                   hostVars>>

\* A loop that counts a received transaction as awaiting acknowledgement.
AfterReceiveCounting(n) == n + 1

\* The pending-acknowledgement counter after a transaction was received:
\* nothing in the loop adds to it.
AfterReceive(n) == n

\* case _, open = <-j.transactions, with a transaction: it is dropped.
LoopReceive(l) ==
    /\ NoPanic
    /\ loopPc[l] = "select"
    /\ upstream = "open"
    /\ received < MaxRecv
    /\ received' = received + 1
    /\ ackPending' = [ackPending EXCEPT ![l] = AfterReceive(@)]
    /\ loopPc' = [loopPc EXCEPT ![l] = "check"]
    /\ UNCHANGED <<confVars, mut, vm, callerVars, consumePc, transactions,
                   consumeRet, upstream, closeNow, hasClosed, waitRet, loopIdx,
                   sinkVars, hostVars>>

\* case _, open = <-j.transactions, with the channel closed: return.
LoopUpstreamClosed(l) ==
    /\ NoPanic
    /\ loopPc[l] = "select"
    /\ upstream = "closed"
    /\ loopPc' = [loopPc EXCEPT ![l] = "ackwait"]
    /\ UNCHANGED <<confVars, mut, vm, callerVars, loopIdx, loopRest, sinkVars,
                   hostVars>>

\* case <-j.shutSig.CloseNowChan(): return.
LoopCloseNow(l) ==
    /\ NoPanic
    /\ loopPc[l] = "select"
    /\ closeNow
    /\ loopPc' = [loopPc EXCEPT ![l] = "ackwait"]
    /\ UNCHANGED <<confVars, mut, vm, callerVars, loopIdx, loopRest, sinkVars,
                   hostVars>>

\* The deferred function: the wait for pending acknowledgements, left when
\* the counter is zero or the close-now channel is closed.
LoopAckWait(l) ==
    /\ NoPanic
    /\ loopPc[l] = "ackwait"
    /\ ackPending[l] = 0 \/ closeNow
    /\ LoopAdvance(l, "ackwait", Len(outputs))
    /\ UNCHANGED <<confVars, mut, vm, callerVars, loopRest, sinkVars, hostVars>>

\* close(c) for the next channel of j.outputTSChans; close of a channel that
\* is closed already panics.
LoopCloseChan(l) ==
    /\ NoPanic
    /\ loopPc[l] = "closeChans"
    /\ IF chanClosed[loopIdx[l]]
       THEN /\ loopPc' = [loopPc EXCEPT ![l] = "panic"]
            /\ UNCHANGED <<loopIdx, chanClosed>>
       ELSE /\ chanClosed' = [chanClosed EXCEPT ![loopIdx[l]] = TRUE]
            /\ LoopAdvance(l, "closeChans", loopIdx[l])
    /\ UNCHANGED <<confVars, mut, vm, callerVars, loopRest, sinkState, sinkGot,
                   hostVars>>

\* o.TriggerCloseNow() for the next sink of j.outputStreams.
LoopTriggerSink(l) ==
    /\ NoPanic
    /\ loopPc[l] = "trigger"
    /\ sinkState' = [sinkState EXCEPT ![loopIdx[l]] =
                        CASE @ = "running" -> "closing"
                          [] @ = "drained" -> "closed"
                          [] OTHER -> @]
    /\ LoopAdvance(l, "trigger", loopIdx[l])
    /\ UNCHANGED <<confVars, mut, vm, callerVars, loopRest, chanClosed, sinkGot,
                   hostVars>>

\* A wait that returns whether or not the sink has closed.
SinkNotAwaited(i) == TRUE

\* o.WaitForClose(context.Background()) for the next sink: it returns when
\* the sink has closed.
SinkConfirmed(i) == sinkState[i] = "closed"

LoopWaitSink(l) ==
    /\ NoPanic
    /\ loopPc[l] = "wait"
    /\ SinkConfirmed(loopIdx[l])
    /\ LoopAdvance(l, "wait", loopIdx[l])
    /\ UNCHANGED <<confVars, mut, vm, callerVars, loopRest, sinkVars, hostVars>>

\* j.shutSig.ShutdownComplete()
LoopComplete(l) ==
    /\ NoPanic
    /\ loopPc[l] = "complete"
    /\ hasClosed' = TRUE
    /\ loopPc' = [loopPc EXCEPT ![l] = "done"]
    /\ UNCHANGED <<confVars, mut, vm, callerVars, consumePc, received,
                   transactions, consumeRet, upstream, closeNow, waitRet,
                   loopIdx, ackPending, sinkVars, hostVars>>

(* --------------------------- specification ---------------------------- *)
\* A step of loop goroutine l.
LoopOf(l) ==
    \/ LoopCheck(l)
    \/ LoopReceive(l)
    \/ LoopUpstreamClosed(l)
    \/ LoopCloseNow(l)
    \/ LoopAckWait(l)
    \/ LoopCloseChan(l)
    \/ LoopTriggerSink(l)
    \/ LoopWaitSink(l)
    \/ LoopComplete(l)

\* The loop goroutine of a stage that one goroutine starts.
LoopStep == LoopOf(1)

\* The output stage with its dispatch loop, started and shut down while one
\* caller writes batches whose scripts send to the sinks.
Init == InitWith({"output"}, {<<"c1">>}) /\ inputs = InitContents /\ Built /\ NoParse

Next ==
    \/ \E e \in OneCaller : WriteBatch(e)
    \/ \E e \in OneCaller : \E args \in LifeSends : BenthosOutput(e, args)
    \/ \E e \in OneCaller : ScriptThrow(e)
    \/ \E e \in OneCaller : ScriptFinish(e)
    \/ \E e \in OneCaller : \E i \in Sinks : SinkReceive(i, e)
    \/ \E e \in OneCaller : SendTimeout(e)
    \/ \E e \in OneCaller : SendPanic(e)
    \/ \E i \in Sinks : SinkDrain(i)
    \/ \E i \in Sinks : SinkClose(i)
    \/ Consume(1)
    \/ TriggerCloseNow
    \/ UpstreamClose
    \/ WaitForClose(FALSE)
    \/ LoopStep

Spec == Init /\ [][Next]_vars

\* Either stage while it is not being shut down, one caller running scripts
\* that use every host function.
InitHost ==
    InitWith({"processor", "output"}, CacheConfs) /\ inputs = InitContents /\ Built /\ NoParse

NextHost ==
    \/ \E e \in OneCaller : Process(e)
    \/ \E e \in OneCaller : WriteBatch(e)
    \/ \E e \in OneCaller : \E f \in PlainFns : \E args \in ArgLists(f) :
          HostCall(e, f, args)
    \/ \E e \in OneCaller : \E args \in ArgLists("benthos_output") :
          BenthosOutput(e, args)
    \/ \E e \in OneCaller : ScriptThrow(e)
    \/ \E e \in OneCaller : ScriptFinish(e)
    \/ \E e \in OneCaller : \E i \in Sinks : SinkReceive(i, e)
    \/ \E e \in OneCaller : SendTimeout(e)

SpecHost == InitHost /\ [][NextHost]_vars

\* Either stage called from several goroutines at once, running scripts that
\* write interpreter state (globals, the names of host functions), touch the
\* message and send to the sinks.
InitConc ==
    InitWith({"processor", "output"}, {<<"c1">>}) /\ inputs = InitContents /\ Built /\ NoParse

NextConc ==
    \/ \E e \in Callers : Process(e)
    \/ \E e \in Callers : WriteBatch(e)
    \/ \E e \in Callers : \E c \in VMCalls : HostCall(e, c[1], c[2])
    \/ \E e \in Callers : \E args \in LifeSends : BenthosOutput(e, args)
    \/ \E e \in Callers : ScriptSetGlobal(e)
    \/ \E e \in Callers : \E f \in OverridableFns : ScriptOverride(e, f)
    \/ \E e \in Callers : ScriptThrow(e)
    \/ \E e \in Callers : ScriptFinish(e)
    \/ \E e \in Callers : \E i \in Sinks : SinkReceive(i, e)
    \/ \E e \in Callers : SendTimeout(e)

SpecConc == InitConc /\ [][NextConc]_vars

\* The shutdown under the scheduling the runtime gives: the dispatch loop
\* goroutine keeps running, a Consume call that has begun goes on to its
\* end, a sink told to close does close, and the timer of a blocked send
\* fires.
SinkCloseAny == \E i \in Sinks : SinkClose(i)
SendTimeoutAny == \E e \in OneCaller : SendTimeout(e)

SpecFair ==
    /\ Spec
    /\ WF_vars(LoopStep)
    /\ WF_vars(consumePc[1] = "checked" /\ Consume(1))
    /\ WF_vars(SinkCloseAny)
    /\ WF_vars(SendTimeoutAny)

\* Either stage, one caller running scripts that read and write the
\* metadata and the payload of messages with and without structured data.
InitMsg ==
    InitWith({"processor", "output"}, {<<"c1">>}) /\ inputs = StructuredContents
    /\ Built /\ NoParse

NextMsg ==
    \/ \E e \in OneCaller : Process(e)
    \/ \E e \in OneCaller : WriteBatch(e)
    \/ \E e \in OneCaller : \E f \in MsgFns : \E args \in MsgArgLists(f) :
          HostCall(e, f, args)
    \/ \E e \in OneCaller : ScriptMutateRoot(e)
    \/ \E e \in OneCaller : ScriptThrow(e)
    \/ \E e \in OneCaller : ScriptFinish(e)

SpecMsg == InitMsg /\ [][NextMsg]_vars

\* Either stage, one caller running scripts that use the four cache
\* functions, with no cache resource configured or with two.
InitCache ==
    InitWith({"processor", "output"}, TwoCacheConfs) /\ inputs = InitContents /\ Built /\ NoParse

NextCache ==
    \/ \E e \in OneCaller : Process(e)
    \/ \E e \in OneCaller : WriteBatch(e)
    \/ \E e \in OneCaller : \E f \in CacheFns : \E args \in CacheArgLists(f) :
          HostCall(e, f, args)
    \/ \E e \in OneCaller : ScriptThrow(e)
    \/ \E e \in OneCaller : ScriptFinish(e)

SpecCache == InitCache /\ [][NextCache]_vars

\* The construction of either stage from every configuration, and the stage
\* it returns at work.
InitNew == InitWith({"none"}, {<< >>}) /\ inputs = InitContents /\ NotBuilt /\ NoParse

NextNew ==
    \/ \E c \in NewConfs : Construct(c)
    \/ \E e \in OneCaller : Process(e)
    \/ \E e \in OneCaller : WriteBatch(e)
    \/ \E e \in OneCaller : \E c \in VMCalls : HostCall(e, c[1], c[2])
    \/ \E e \in OneCaller : \E args \in LifeSends : BenthosOutput(e, args)
    \/ \E e \in OneCaller : \E i \in Sinks : SinkReceive(i, e)
    \/ \E e \in OneCaller : SendTimeout(e)
    \/ \E e \in OneCaller : ScriptThrow(e)
    \/ \E e \in OneCaller : ScriptFinish(e)

SpecNew == InitNew /\ [][NextNew]_vars

\* parseArgs on its own, on every argument list and destination list up to
\* MaxArgs long.
InitArgs ==
    /\ InitWith({"none"}, {<< >>}) /\ inputs = InitContents
    /\ conf = NoConf /\ newErr = NoErr /\ created = << >> /\ attached = {}
    /\ paArgs \in SeqsUpTo(ArgValues, MaxArgs)
    /\ paPtrs \in SeqsUpTo(Dests, MaxArgs)
    /\ paOut = NoParseOut

NextArgs == ParseArgsCall

SpecArgs == InitArgs /\ [][NextArgs]_vars

\* The output stage started by several goroutines calling Consume at once,
\* then shut down; no batch is written.
InitStart ==
    InitWith({"output"}, {<<"c1">>}) /\ inputs = InitContents /\ Built /\ NoParse

NextStart ==
    \/ \E k \in Consumers : Consume(k)
    \/ \E l \in Consumers : LoopOf(l)
    \/ \E i \in Sinks : SinkClose(i)
    \/ TriggerCloseNow
    \/ UpstreamClose
    \/ \E ctxDone \in BOOLEAN : WaitForClose(ctxDone)

SpecStart == InitStart /\ [][NextStart]_vars

(* ------------------------------ claims -------------------------------- *)
Executing(e) == pc[e] \in {"run", "send"}
Started == \E l \in Consumers : loopPc[l] # "none"
Closing == closeNow \/ upstream = "closed"
AllChansClosed == \A i \in Sinks : chanClosed[i]

\* C1: no per-sink channel is closed while a benthos_output call is sending
\* on it, and no send ever meets a closed channel (which panics).
C1_NoSendOnClosedChannel ==
    \A e \in Callers :
        /\ pc[e] # "panic"
        /\ pc[e] = "send" => ~chanClosed[send[e].idx]

\* C2: at most one script execution is in progress on the stage, and the
\* caller executing holds the stage mutex from the first message of its batch
\* to the last.
C2_OneExecutionAtATime ==
    /\ Cardinality({e \in Callers : Executing(e)}) <= 1
    /\ \A e \in Callers :
          Executing(e) => /\ mut = e
                          /\ idx[e] \in 1..batchLen[e]
                          /\ vm.msg = <<e, idx[e]>>

C2_Witness ==
    /\ variant = "output"
    /\ pc[1] = "run" /\ batchLen[1] = 2 /\ idx[1] = 2
    /\ result[2] # NoResult

\* C3: when the stage reports closed (the signal complete, WaitForClose
\* returning nil) every per-sink channel is closed and every sink has been
\* force-closed and has confirmed; no sink is force-closed before every
\* channel is closed, and no confirmation is awaited before every sink is
\* force-closed.
ReportsClosed == hasClosed \/ waitRet = "nil"
ForceClosed(i) == sinkState[i] \in {"closing", "closed"}
SomeConfirmationAwaited ==
    \E l \in Consumers :
        \/ loopPc[l] = "wait" /\ loopIdx[l] > 1
        \/ loopPc[l] \in {"complete", "done"}

C3_ClosedOnlyAfterSinks ==
    /\ ReportsClosed =>
          \A i \in Sinks : chanClosed[i] /\ sinkState[i] = "closed"
    /\ (\E i \in Sinks : ForceClosed(i)) => AllChansClosed
    /\ (Started /\ SomeConfirmationAwaited) =>
          \A i \in Sinks : ForceClosed(i)
    /\ ReportsClosed => \E l \in Consumers : loopPc[l] = "done"

C3_Witness ==
    /\ hasClosed /\ waitRet = "nil"
    /\ Len(outputs) = 2
    /\ \A i \in Sinks : chanClosed[i] /\ sinkState[i] = "closed"

\* C4: once the dispatch loop is started, a forced shutdown always brings
\* the stage to the closed state.
C4_ForcedShutdownCloses == (Started /\ closeNow) ~> hasClosed

\* C5: a force-close triggered while a benthos_output call is blocked in its
\* send still brings the started stage to the closed state, with the blocked
\* caller released.
C5_BlockedSendShutdownCloses ==
    (Started /\ closeNow /\ \E e \in Callers : pc[e] = "send")
        ~> (hasClosed /\ \A e \in Callers : pc[e] \in {"idle", "run"})

\* C6: once closing has begun, no caller that was not executing starts an
\* execution.
C6_NoExecutionStartsAfterClosing ==
    [][\A e \in Callers : (Closing /\ pc[e] = "idle") => pc'[e] = "idle"]_vars

\* C7: one benthos_output call puts at most one transaction on at most one
\* channel.  A transaction reaches a sink only from a caller blocked on that
\* sink's channel, whose name it passed, as one batch of one message
\* carrying the value it passed, and the call then succeeds; a call ending
\* in "output timeout" was blocked and delivers nothing; a call naming no
\* configured sink, or made in the processor, fails without ever blocking.
SinkName(args) == JSString(args[1])
Configured(args) ==
    variant = "output" /\ \E i \in Sinks : outputs[i] = SinkName(args)

C7Delivery(i) ==
    sinkGot'[i] # sinkGot[i] =>
        \E e \in Callers :
            /\ pc[e] = "send" /\ pc'[e] = "run"
            /\ send[e].idx = i
            /\ outputs[i] = SinkName(send[e].args)
            /\ sinkGot'[i] = Append(sinkGot[i], <<JSString(send[e].args[2])>>)
            /\ \A k \in Sinks \ {i} : sinkGot'[k] = sinkGot[k]
            /\ call'[e].fn = "benthos_output" /\ call'[e].err = NoErr

C7Outcome(e) ==
    /\ (pc[e] = "send" /\ pc'[e] = "run") =>
          /\ call'[e].fn = "benthos_output"
          /\ call'[e].err \in {NoErr, ErrOutputTimeout}
          /\ call'[e].err = ErrOutputTimeout => sinkGot' = sinkGot
          /\ call'[e].err = NoErr =>
                sinkGot'[send[e].idx] # sinkGot[send[e].idx]
    /\ pc'[e] = "send" => Configured(send'[e].args)
    /\ (call'[e].fn = "benthos_output" /\ ~Configured(call'[e].args)) =>
          /\ call'[e].err \notin {NoErr, ErrOutputTimeout}
          /\ call'[e].ret = Null
          /\ pc[e] # "send"
    /\ (call'[e].fn = "benthos_output" /\ variant = "processor") =>
          call'[e].err = ErrRunInProcessor

C7_OneTransactionPerCall ==
    [][/\ \A i \in Sinks : C7Delivery(i)
       /\ \A e \in Callers : C7Outcome(e)]_vars

C7_Witness ==
    /\ pc[1] = "run"
    /\ call[1].fn = "benthos_output" /\ call[1].err = NoErr
    /\ call[1].args = <<Str("b"), Str("v")>>
    /\ sinkGot = <<<< >>, <<QuickBatch("v")>> >>

\* C8 as claimed: every getCacheRes / setCacheRes call whose resource name is
\* not configured fails with "not cache res".
ResCall(c) == c.fn \in {"getCacheRes", "setCacheRes"} /\ Len(c.args) >= 1
Unconfigured(c) == JSString(c.args[1]) \notin Range(caches)

C8_UnconfiguredAlwaysNotCacheRes ==
    \A e \in Callers :
        (ResCall(call[e]) /\ Unconfigured(call[e])) =>
            call[e].err = ErrNotCacheRes

\* C8 amended: every getCacheRes / setCacheRes call whose resource name is
\* not configured fails and gives the script null, with "not cache res" when
\* its arguments marshal and with the marshalling error when they do not,
\* and no cache resource outside the configured list is ever reached.
Marshals(c) ==
    /\ Len(c.args) <= (IF c.fn = "getCacheRes" THEN 2 ELSE 3)
    /\ \A i \in DOMAIN c.args : c.args[i] # Undefined

C8_UnconfiguredNeverReached ==
    /\ accessed \subseteq Range(caches)
    /\ \A c \in MgrCaches \ Range(caches) : store[c] = {}
    /\ \A e \in Callers :
          (ResCall(call[e]) /\ Unconfigured(call[e])) =>
              /\ call[e].ret = Null
              /\ call[e].err \in {ErrNotCacheRes, ErrTooMany, ErrUndefinedArg}
              /\ Marshals(call[e]) => call[e].err = ErrNotCacheRes
              /\ call[e].log = call[e].err

C8_Witness ==
    /\ caches = <<"c1">>
    /\ accessed = {"c1"}
    /\ call[1].fn = "getCacheRes"
    /\ call[1].args = <<Str("c2"), Str("k")>>
    /\ call[1].err = ErrNotCacheRes

\* C9: a host function that fails gives the script null, logs its error and
\* lets the execution go on at the same message; Process and WriteBatch
\* return an error only when a script raised an uncaught fault.
C9HostFailure(e) ==
    (call'[e] # call[e] /\ call'[e].fn \in HostFns /\ call'[e].err # NoErr) =>
        /\ call'[e].ret = Null
        /\ call'[e].log = call'[e].err
        /\ pc'[e] = "run"
        /\ idx'[e] = idx[e]
        /\ batchErr'[e] = batchErr[e]
        /\ result'[e] = result[e]

C9OnlyFaults(e) ==
    /\ batchErr[e] => faulted[e]
    /\ result[e].err = ErrScript => faulted[e]

C9_HostFailureNeverAborts ==
    [][\A e \in Callers : C9HostFailure(e) /\ C9OnlyFaults(e)']_vars

C9_Witness ==
    /\ pc[1] = "run" /\ idx[1] = 2
    /\ call[1].fn = "benthos_output" /\ call[1].err = ErrOutputTimeout
    /\ call[1].ret = Null
    /\ ~faulted[1] /\ ~batchErr[1]

\* C10: every execution starts on an interpreter nothing has written to,
\* sees in it only what it wrote itself, and its host functions are bound to
\* its own message; a message changes only under the caller executing it.
StartsExecution(e) ==
    pc'[e] = "run" /\ (pc[e] = "idle" \/ idx'[e] # idx[e])

C10Step(e) ==
    /\ StartsExecution(e) => /\ vm'.globals = {}
                             /\ vm'.overridden = {}
    /\ Executing(e)' => /\ vm'.msg = msg'[e].id
                        /\ vm'.globals \subseteq {msg'[e].id}
    /\ msg'[e] # msg[e] => (mut = e \/ mut' = e)

C10_FreshInterpreterPerExecution ==
    [][\A e \in Callers : C10Step(e)]_vars

C10_Witness ==
    /\ pc[2] = "run" /\ idx[2] = 2
    /\ vm.globals = {<<2, 2>>}
    /\ vm.overridden = {"getMeta"}
    /\ result[1] # NoResult

\* C11: in the processor variant, a Process call whose script ran to its end
\* returns the one message it was given and no error, and one whose script
\* raised an uncaught fault returns the error and no message; it never
\* returns a message together with an error, nor any other message.
C11Return(e) ==
    (variant = "processor" /\ pc[e] = "run" /\ pc'[e] = "idle") =>
        /\ faulted'[e] => result'[e] = [err |-> ErrScript, ids |-> << >>]
        /\ ~faulted'[e] =>
              result'[e] = [err |-> NoErr, ids |-> <<msg[e].id>>]

C11_ProcessReturnsMessageOrError ==
    [][\A e \in Callers : C11Return(e)]_vars

C11_Witness ==
    /\ variant = "processor"
    /\ faulted[1]
    /\ result[1] = [err |-> ErrScript, ids |-> << >>]
    /\ accessed = {"c1"}

\* C12: right after a successful setMeta(key, value), getMeta(key) gives
\* exactly value when value is a non-empty string and fails with "not found"
\* when value is the empty string, whatever the key held before (a value
\* that is not a string comes back as the text it was coerced to); and no
\* step of the execution other than a successful setMeta changes the
\* metadata, so the same holds for every later getMeta(key).
C12RoundTrip(e) ==
    (pc[e] = "run" /\ call[e].fn = "setMeta" /\ call[e].err = NoErr) =>
        LET key == call[e].args[1]
            value == call[e].args[2]
            got == getMeta(<<key>>, Env(msg[e], store, accessed))
        IN  \A o \in got :
              LET r == setFunction(o.res, o.err)
              IN  /\ (value.t = "string" /\ value.s # "") =>
                        (o.err = NoErr /\ r.ret = value)
                  /\ value = Str("") =>
                        (o.err = ErrNotFound /\ r.ret = Null)
                  /\ value.t # "string" =>
                        (o.err = NoErr /\ r.ret = Str(JSString(value)))
                  /\ o.env.msg = msg[e]

C12Frame(e) ==
    (/\ pc[e] = "run" /\ pc'[e] = "run" /\ idx'[e] = idx[e]
     /\ ~(call'[e].fn = "setMeta" /\ call'[e].err = NoErr)) =>
        msg'[e].meta = msg[e].meta

C12_SetMetaDeterminesGetMeta ==
    [][\A e \in Callers : C12RoundTrip(e)' /\ C12Frame(e)]_vars

C12_Witness ==
    /\ pc[1] = "run"
    /\ call[1].fn = "setMeta" /\ call[1].err = NoErr
    /\ call[1].args = <<Str("k"), Str("")>>
    /\ ~MetaHas(msg[1].meta, "k")
    /\ MetaHas(msg[1].meta, "j")

\* C13: with a cache resource configured, getCache(args) has the outcomes of
\* getCacheRes(first, args) and setCache(args) those of
\* setCacheRes(first, args), first being the first entry of cache_res, so a
\* value written by one is read by the other; with none configured both fail
\* and leave the backends and the record of resources reached as they were.
C13Env(e) == Env(msg[e], store, accessed)
C13First == <<Str(caches[1])>>

C13Same(e) ==
    /\ \A a \in CacheArgLists("getCache") :
          getCache(caches, a, C13Env(e)) =
              getCacheRes(caches, C13First \o a, C13Env(e))
    /\ \A a \in CacheArgLists("setCache") :
          setCache(caches, a, C13Env(e)) =
              setCacheRes(caches, C13First \o a, C13Env(e))

C13RoundTrip(e) ==
    /\ (call[e].fn = "setCache" /\ call[e].err = NoErr) =>
          LET k == call[e].args[1]
              got == getCacheRes(caches, C13First \o <<k>>, C13Env(e))
          IN  /\ \E o \in got : o.err = NoErr
              /\ \A o \in got : o.err = NoErr => ToValue(o.res) = call[e].args[2]
    /\ (/\ call[e].fn = "setCacheRes" /\ call[e].err = NoErr
        /\ call[e].args[1] = Str(caches[1])) =>
          LET k == call[e].args[2]
              got == getCache(caches, <<k>>, C13Env(e))
          IN  /\ \E o \in got : o.err = NoErr
              /\ \A o \in got : o.err = NoErr => ToValue(o.res) = call[e].args[3]

C13NoneConfigured(e) ==
    \A f \in {"getCache", "setCache"} : \A a \in CacheArgLists(f) :
        \A o \in HostBody(caches, f, a, C13Env(e)) :
            o.err # NoErr /\ o.env = C13Env(e)

C13_CacheIsFirstCacheRes ==
    \A e \in Callers :
        pc[e] = "run" =>
            IF Len(caches) > 0 THEN C13Same(e) /\ C13RoundTrip(e)
            ELSE C13NoneConfigured(e) /\ accessed = {}

C13_Witness ==
    /\ caches = <<"c2", "c1">>
    /\ pc[1] = "run"
    /\ call[1].fn = "getCacheRes"
    /\ call[1].args = <<Str("c2"), Str("k")>>
    /\ call[1].ret = Str("v")
    /\ store["c1"] = {}

\* C14: the shutdown lifecycle of the stage only moves forward: a close that
\* was requested (force-close, or the upstream channel closed) stays
\* requested, the dispatch loop never goes back from its shutdown sequence,
\* and a stage that is closed (signal complete, loop ended, channels and
\* sinks closed) stays closed whatever is called on it afterwards.
LoopRank(l) ==
    CASE loopPc[l] \in {"none", "check", "select"} -> 0
      [] loopPc[l] = "ackwait" -> 1
      [] loopPc[l] = "closeChans" -> 2
      [] loopPc[l] = "trigger" -> 3
      [] loopPc[l] = "wait" -> 4
      [] loopPc[l] = "complete" -> 5
      [] loopPc[l] \in {"done", "panic"} -> 6

StageClosed ==
    /\ hasClosed
    /\ \E l \in Consumers : loopPc[l] = "done"
    /\ \A i \in Sinks : chanClosed[i] /\ sinkState[i] = "closed"

LifeRank == IF hasClosed THEN 2 ELSE IF Closing THEN 1 ELSE 0

C14_LifecycleOnlyForward ==
    [][/\ closeNow => closeNow'
       /\ LifeRank' >= LifeRank
       /\ \A l \in Consumers : LoopRank(l)' >= LoopRank(l)
       /\ hasClosed = StageClosed
       /\ StageClosed => StageClosed']_vars

C14_Witness ==
    /\ StageClosed /\ closeNow
    /\ waitRet = "nil"
    /\ consumeRet = "ErrAlreadyStarted"
    /\ pc[1] = "run" /\ idx[1] = 2

\* C15: the value getRoot returns is detached from the message: within an
\* execution the structured payload of the message changes only in a
\* successful setRoot call, to the value that call was given.
C15PayloadStep(e) ==
    (/\ pc[e] = "run" /\ pc'[e] = "run" /\ idx'[e] = idx[e]
     /\ msg'[e].root # msg[e].root) =>
        /\ call'[e].fn = "setRoot" /\ call'[e].err = NoErr
        /\ msg'[e].root = Export(call'[e].args[1])

C15_GetRootDetached ==
    [][\A e \in Callers : C15PayloadStep(e)]_vars

\* C16: a constructor called with both code and file, or with neither,
\* fails with the matching error whatever the two hold, returns no stage,
\* and in the output variant has created no sink and attached no channel.
C16BadFields == (conf.code # "") = (conf.file # "")

C16_BothOrNeitherFails ==
    (conf # NoConf /\ C16BadFields) =>
        /\ newErr = (IF conf.code # "" THEN ErrBothCodeFile
                     ELSE ErrNeitherCodeFile)
        /\ variant = "none"
        /\ created = << >> /\ attached = {}
        /\ \A e \in Callers : pc[e] = "idle"

C16_Witness ==
    /\ conf.kind = "output"
    /\ conf.code = "bad" /\ conf.file = "missing.js"
    /\ newErr = ErrBothCodeFile
    /\ created = << >>

\* C17 as claimed: parseArgs fails when there are more arguments than
\* destinations and when a supplied argument is undefined; in every other
\* case it succeeds, destination i holds argument i converted for every
\* supplied position, and the destinations beyond keep their value.
C17Called == paOut # NoParseOut
C17TooMany == Len(paArgs) > Len(paPtrs)
C17HasUndefined == \E i \in DOMAIN paArgs : paArgs[i] = Undefined

C17Expected(arg, d) ==
    CASE d.kind = "string" -> GoStr(JSString(arg))
      [] d.kind = "int" -> GoInt(ToInteger(arg))
      [] OTHER -> Export(arg)

C17Written ==
    /\ paOut.err = NoErr
    /\ \A i \in DOMAIN paArgs :
          /\ paOut.ptrs[i].kind = paPtrs[i].kind
          /\ paOut.ptrs[i].val = C17Expected(paArgs[i], paPtrs[i])

C17BeyondUntouched ==
    /\ DOMAIN paOut.ptrs = DOMAIN paPtrs
    /\ \A i \in DOMAIN paPtrs : i > Len(paArgs) => paOut.ptrs[i] = paPtrs[i]

C17_OtherwiseWritesEveryPosition ==
    C17Called =>
        /\ C17TooMany => paOut.err = ErrTooMany
        /\ (~C17TooMany /\ C17HasUndefined) => paOut.err # NoErr
        /\ (~C17TooMany /\ ~C17HasUndefined) =>
              (C17Written /\ C17BeyondUntouched)

\* C17 amended: parseArgs also fails when the destination of a supplied
\* position has a type the switch has no case for, or is a map or slice the
\* argument does not convert to; it writes every supplied position when none
\* of the four holds, and in every case the destinations beyond the supplied
\* arguments keep their value.
C17Convertible(i) ==
    /\ paPtrs[i].kind \in {"string", "int", "any", "map", "slice"}
    /\ paPtrs[i].kind = "map" => paArgs[i].t = "object"
    /\ paPtrs[i].kind = "slice" => paArgs[i].t = "array"

C17_WritesSuppliedPositionsOnly ==
    C17Called =>
        /\ C17TooMany => (paOut.err = ErrTooMany /\ paOut.ptrs = paPtrs)
        /\ (~C17TooMany /\ C17HasUndefined) => paOut.err # NoErr
        /\ (~C17TooMany /\ ~C17HasUndefined) =>
              IF \A i \in DOMAIN paArgs : C17Convertible(i)
              THEN C17Written
              ELSE paOut.err \in {ErrUnhandledType, ErrCouldNotParse}
        /\ C17BeyondUntouched

C17_Witness ==
    /\ paArgs = <<Str("s")>>
    /\ paPtrs = <<StrDest("d"), Dest("int", GoInt(9))>>
    /\ paOut = [err |-> NoErr,
                ptrs |-> <<StrDest("s"), Dest("int", GoInt(9))>>]

\* C18: parseArgs never coerces: when a supplied value has not the type of
\* its destination (a number, object or array for a string, a string for an
\* integer, what is not an object for a map, what is not an array for a
\* slice) it fails with an unsupported-type error.
C18Mismatch(arg, d) ==
    \/ d.kind = "string" /\ arg.t # "string"
    \/ d.kind = "int" /\ arg.t # "number"
    \/ d.kind = "map" /\ arg.t # "object"
    \/ d.kind = "slice" /\ arg.t # "array"

C18_NeverCoerces ==
    (C17Called /\ ~C17TooMany /\ ~C17HasUndefined) =>
        ((\E i \in DOMAIN paArgs : C18Mismatch(paArgs[i], paPtrs[i])) =>
            paOut.err \in {ErrUnhandledType, ErrCouldNotParse})

\* C19: a host call that fails on its arguments, on a resource name that is
\* not permitted, on no cache being configured or on a key that is not found
\* leaves every message, the cache contents and what the sinks have taken
\* from their channels as they were; getMeta, getCache and getCacheRes leave
\* the messages as they were whatever they return.
C19Failures ==
    {ErrTooMany, ErrUndefinedArg, ErrUnhandledType, ErrCouldNotParse,
     ErrNotCacheRes, ErrNotOutputRes, ErrRunInProcessor, ErrNotFound}

C19Call(e) == call'[e] # call[e] /\ call'[e].fn \in HostFns

C19Step(e) ==
    /\ (C19Call(e) /\ call'[e].err \in C19Failures) =>
          /\ msg' = msg
          /\ store' = store
          /\ sinkGot' = sinkGot /\ chanClosed' = chanClosed
          /\ call'[e].ret = Null
    /\ (C19Call(e) /\ call'[e].fn \in {"getMeta", "getCache", "getCacheRes"}) =>
          msg' = msg

C19_FailedCallHasNoEffect ==
    [][\A e \in Callers : C19Step(e)]_vars

C19_Witness ==
    /\ pc[1] = "run"
    /\ call[1].fn = "setMeta" /\ call[1].args = <<Str("k"), Undefined>>
    /\ call[1].err = ErrUndefinedArg
    /\ msg[1].meta = {<<"k", GoInt(7)>>}
    /\ store["c1"] # {}

\* C20: once the dispatch loop is started and the upstream transaction
\* channel is closed, and no TriggerCloseNow is ever called, the stage goes
\* through the whole closing sequence: every per-sink channel is closed,
\* every sink is force-closed and has confirmed, and the stage reports
\* closed.
C20ClosedInFull ==
    /\ hasClosed
    /\ \A i \in Sinks : chanClosed[i] /\ sinkState[i] = "closed"

C20_UpstreamClosureCloses ==
    (Started /\ upstream = "closed") ~> (closeNow \/ C20ClosedInFull)

\* C24: after a construction of the output stage that failed, whatever the
\* step it failed at, no sink created during it is still open and none is
\* attached to a per-sink channel.
C24_FailedConstructionLeavesNoSink ==
    (conf # NoConf /\ conf.kind = "output" /\ newErr # NoErr) =>
        created = << >> /\ attached = {}

\* C21: the dispatch loop never forwards and never acknowledges: a
\* transaction it takes from the upstream channel changes nothing but the
\* loop's own position, no step of the loop puts anything on a per-sink
\* channel, whatever a sink takes from its channel comes from a caller
\* blocked in the send of benthos_output, and the pending-acknowledgement
\* counter is zero in every state.
C21LoopMoved == loopPc' # loopPc \/ loopIdx' # loopIdx

C21Step ==
    /\ received' # received =>
          /\ received' = received + 1
          /\ UNCHANGED <<callerVars, sinkVars, hostVars, ackPending, mut, vm>>
    /\ C21LoopMoved => sinkGot' = sinkGot /\ send' = send
    /\ \A i \in Sinks :
          sinkGot'[i] # sinkGot[i] =>
              \E e \in Callers :
                  /\ pc[e] = "send" /\ send[e].idx = i
                  /\ call'[e].fn = "benthos_output"
                  /\ ~C21LoopMoved

C21_LoopNeverForwards ==
    /\ [](\A l \in Consumers : ackPending[l] = 0)
    /\ [][C21Step]_vars

C21_Witness ==
    /\ received = MaxRecv
    /\ loopPc[1] = "select"
    /\ ackPending[1] = 0
    /\ sinkGot[1] = <<QuickBatch("v")>>
    /\ sinkGot[2] = << >>

\* C22: once TriggerCloseNow has been called on an output stage, whether or
\* not Consume was ever called on it, every sink the stage owns is
\* eventually force-closed and the stage eventually reports closed, so that
\* a WaitForClose whose context is not cancelled returns nil.
C22_TriggerCloseNowAlwaysCloses ==
    closeNow ~> (hasClosed /\ \A i \in Sinks : ForceClosed(i))

\* C23: whatever the interleaving of Consume calls, at most one dispatch
\* loop is ever started, so no per-sink channel is closed a second time
\* (which panics).
C23LoopsStarted == {l \in Consumers : loopPc[l] # "none"}

C23_AtMostOneLoop ==
    /\ Cardinality(C23LoopsStarted) <= 1
    /\ \A l \in Consumers : loopPc[l] # "panic"

====
